---- MODULE Spec2Model ----
(***************************************************************************)
(* restrix: a circuit breaker whose state lives in Redis.                  *)
(*                                                                         *)
(* The model follows Breaker.DoCtx and the five MULTI/EXEC transactions it *)
(* issues (init, preRun, flipClose, flipOpen, recordError).  Every         *)
(* transaction is one atomic step against the store; a guarded call is the *)
(* sequence init, preRun, the wrapped work, the outcome write, and other   *)
(* callers and the passing of time may come between any two of them.       *)
(*                                                                         *)
(* Time is counted in whole seconds: a key's ttl is the number of seconds  *)
(* it has left, and Tick lets one second pass.  Durations of the settings  *)
(* are kept in milliseconds, so that Duration.Seconds() can be a fraction. *)
(***************************************************************************)
EXTENDS Integers, Sequences, FiniteSets, TLC

VARIABLES
    store,      \* the four Redis keys of the breaker name, and last_opened_at
    cfg,        \* the Breaker's settings, fixed at construction
    pc,         \* where each caller stands in DoCtx
    state,      \* DoCtx's local `state` (the effective state of the call)
    reqCount,   \* DoCtx's local `reqCount`, as preRun read it
    errCount,   \* DoCtx's local `errCount`, as preRun read it
    err,        \* what the wrapped work returned ("unrun" until it has run)
    ret,        \* what DoCtx returned to the caller
    diag,       \* what DoCtx printed for a failed outcome write
    dirty,      \* whether a transaction of this call changed a stored key
    seeded,     \* the request count the window held when first seen (0: a new window)
    held,       \* connections taken from the pool and not given back
    decided     \* a Closed-state failure as Do and as DoCtx decide it

vars == <<store, cfg, pc, state, reqCount, errCount, err, ret, diag, dirty, seeded,
          held, decided>>

---------------------------------------------------------------------------
(* Bounds of the model *)

MaxCount == 3                   \* requests the callers add to one window
MaxEvents == 3                  \* length of the call sequences compared in RoundTrip
FractionalWindowMs == 1500      \* a sleep window that is not a whole number of seconds
SeedRequests == 49              \* a window that has seen this many requests ...
SeedErrors == 28                \* ... and this many failures
SeedErrorPercentThreshold == 58
MaxHeld == 3                    \* connections counted as held (this many or more)
MaxRead == 12                   \* the counts preRun reads, where the decisions are compared

(* Settings found in the source *)

TestRequestCountThreshold == 2
TestErrorPercentThreshold == 50
TestSeedRequests == 1000
DefaultRequestCountThreshold == 10
DefaultErrorPercentThreshold == 70
DefaultSleepWindowSec == 2
DefaultIntervalSec == 3

\* Two callers share the breaker name: the races of DoCtx are between two calls.
Callers == {1, 2}

---------------------------------------------------------------------------
(* Values *)

circuitStateClosed == "CLOSED"
circuitStateOpened == "OPENED"
circuitStateHalfOpened == "HALF_OPENED"

NoKey == "(nil)"                \* GET of the state key when it does not exist
NilReply == -1                  \* GET of a counter or the marker that does not exist
NoTTL == 0                      \* a key without an expiry

ErrCircuitOpened == "restrix: circuit opened"
ErrStore == "restrix: store error"
WorkErrors == {"work error 1", "work error 2"}
Unrun == "unrun"
Nil == "nil"
Quiet == ""

Absent == [ex |-> FALSE, val |-> 0, ttl |-> NoTTL]
Key(v, t) == [ex |-> TRUE, val |-> v, ttl |-> t]

EmptyStore ==
    [st |-> NoKey, marker |-> Absent, req |-> Absent, err |-> Absent, openedAt |-> FALSE]

---------------------------------------------------------------------------
(* Redis commands, on one key *)

SETNX(k, v) == IF k.ex THEN k ELSE Key(v, NoTTL)

SET(k, v) == Key(v, NoTTL)

INCR(k) == IF k.ex THEN [k EXCEPT !.val = @ + 1] ELSE Key(1, NoTTL)

UNLINK(k) == Absent

GET(k) == IF k.ex THEN k.val ELSE NilReply

\* Duration.Seconds() of d milliseconds, as redigo writes the float64: digits
\* without a fraction when it is whole, with one otherwise.
Seconds(d) == [whole |-> d \div 1000, frac |-> d % 1000]

\* EXPIRE key seconds NX: Redis takes an integer number of seconds and
\* answers an error to anything else, leaving the key as it is; NX sets the
\* expiry only on a key that has none.
EXPIRE_NX(k, secs) ==
    IF secs.frac # 0 THEN k
    ELSE IF k.ex /\ k.ttl = NoTTL THEN [k EXCEPT !.ttl = secs.whole]
    ELSE k

\* redis.Int(reply, nil) with the error dropped: 0 for a nil reply.
redisInt(reply) == IF reply = NilReply THEN 0 ELSE reply

---------------------------------------------------------------------------
(* The transactions *)

\* init with SET in the place of SETNX: it would overwrite a stored state.
initOverwriting(s) == [s EXCEPT !.st = circuitStateClosed]

init(s) == [s EXCEPT !.st = IF @ = NoKey THEN circuitStateClosed ELSE @]

\* EXPIRE key seconds, without NX: the expiry is set anew.
EXPIRE(k, secs) ==
    IF secs.frac # 0 \/ ~k.ex THEN k ELSE [k EXCEPT !.ttl = secs.whole]

\* preRun with EXPIRE without NX: every call would start the window anew.
preRunExtendingWindow(s, c) ==
    [s EXCEPT !.req = EXPIRE(INCR(@), Seconds(c.interval)),
              !.err = EXPIRE(SETNX(@, 0), Seconds(c.interval))]

\* preRun without SETNX of the error count.
preRunWithoutErrorCount(s, c) ==
    [s EXCEPT !.req = EXPIRE_NX(INCR(@), Seconds(c.interval)),
              !.err = EXPIRE_NX(@, Seconds(c.interval))]

\* preRun with SET in the place of SETNX on the error count: it would start
\* the error count anew with every call.
preRunResettingErrors(s, c) ==
    [s EXCEPT !.req = EXPIRE_NX(INCR(@), Seconds(c.interval)),
              !.err = EXPIRE_NX(SET(@, 0), Seconds(c.interval))]

preRun(s, c) ==
    [s EXCEPT !.req = EXPIRE_NX(INCR(@), Seconds(c.interval)),
              !.err = EXPIRE_NX(SETNX(@, 0), Seconds(c.interval))]

\* flipClose that removes the state key in the place of setting it.
flipCloseUnlinkingState(s) ==
    [s EXCEPT !.st = NoKey,
              !.marker = UNLINK(@),
              !.req = UNLINK(@),
              !.err = UNLINK(@)]

\* flipClose without UNLINK of the marker.
flipCloseKeepingMarker(s) ==
    [s EXCEPT !.st = circuitStateClosed,
              !.req = UNLINK(@),
              !.err = UNLINK(@)]

\* flipClose without UNLINK of the two counters, as src/restrix.go has it.
flipCloseKeepingCounters(s) ==
    [s EXCEPT !.st = circuitStateClosed,
              !.marker = UNLINK(@)]

flipClose(s) ==
    [s EXCEPT !.st = circuitStateClosed,
              !.marker = UNLINK(@),
              !.req = UNLINK(@),
              !.err = UNLINK(@)]

\* flipOpen with SETNX in the place of SET on the marker: a marker that is
\* there would stay as it is.
flipOpenKeepingMarker(s, c) ==
    [s EXCEPT !.st = circuitStateOpened,
              !.marker = EXPIRE_NX(SETNX(@, 1), Seconds(c.sleepWindow)),
              !.openedAt = TRUE]

\* flipOpen without the marker.
flipOpenStateOnly(s, c) ==
    [s EXCEPT !.st = circuitStateOpened,
              !.openedAt = TRUE]

\* flipOpen without the state.
flipOpenMarkerOnly(s, c) ==
    [s EXCEPT !.marker = EXPIRE_NX(SET(@, 1), Seconds(c.sleepWindow)),
              !.openedAt = TRUE]

flipOpen(s, c) ==
    [s EXCEPT !.st = circuitStateOpened,
              !.marker = EXPIRE_NX(SET(@, 1), Seconds(c.sleepWindow)),
              !.openedAt = TRUE]

\* recordError without SETNX of the request count.
recordErrorWithoutRequest(s, c) ==
    [s EXCEPT !.req = EXPIRE_NX(@, Seconds(c.interval)),
              !.err = EXPIRE_NX(INCR(SETNX(@, 0)), Seconds(c.interval))]

recordError(s, c) ==
    [s EXCEPT !.req = EXPIRE_NX(SETNX(@, 1), Seconds(c.interval)),
              !.err = EXPIRE_NX(INCR(SETNX(@, 0)), Seconds(c.interval))]

---------------------------------------------------------------------------
(* int(float64(errCount + 1) / float64(reqCount) * 100) in IEEE 754 double   *)
(* arithmetic.  A significand is kept as five limbs, most significant        *)
(* first: the leading bit, then four limbs of 13 bits (1 + 4 * 13 = 53).     *)

Limb == 2 ^ 13

RECURSIVE floorLog2(_, _)
floorLog2(a, b) ==
    IF a >= 2 * b THEN 1 + floorLog2(a, 2 * b)
    ELSE IF a < b THEN floorLog2(2 * a, b) - 1
    ELSE 0

\* limbs + c: the carry runs from the last limb up, the first takes what is left.
RECURSIVE addCarry(_, _)
addCarry(limbs, c) ==
    IF Len(limbs) = 1 THEN <<limbs[1] + c>>
    ELSE LET t == limbs[Len(limbs)] + c
         IN  addCarry(SubSeq(limbs, 1, Len(limbs) - 1), t \div Limb) \o <<t % Limb>>

\* limbs * k + c
RECURSIVE timesSmall(_, _, _)
timesSmall(limbs, k, c) ==
    IF Len(limbs) = 1 THEN <<limbs[1] * k + c>>
    ELSE LET t == limbs[Len(limbs)] * k + c
         IN  timesSmall(SubSeq(limbs, 1, Len(limbs) - 1), k, t \div Limb) \o <<t % Limb>>

\* The next k limbs of the quotient r / den, and the remainder left.
RECURSIVE longDivision(_, _, _)
longDivision(r, den, k) ==
    IF k = 0 THEN [limbs |-> <<>>, rem |-> r]
    ELSE LET rest == longDivision((r * Limb) % den, den, k - 1)
         IN  [limbs |-> <<(r * Limb) \div den>> \o rest.limbs, rem |-> rest.rem]

\* float64(a) / float64(b) for a, b >= 1, rounded to nearest, ties to even:
\* the value is sig * 2^(exp - 52).
float64Div(a, b) ==
    LET n   == floorLog2(a, b)
        num == IF n < 0 THEN a * 2 ^ (0 - n) ELSE a
        den == IF n > 0 THEN b * 2 ^ n ELSE b
        q   == longDivision(num - den, den, 4)
        sig == <<1>> \o q.limbs
        up  == 2 * q.rem > den \/ (2 * q.rem = den /\ sig[5] % 2 = 1)
    IN  [sig |-> IF up THEN addCarry(sig, 1) ELSE sig, exp |-> n]

\* x * k for a small integer k, rounded to 53 significant bits (nearest, ties
\* to even).
float64Mul(x, k) ==
    LET p    == timesSmall(x.sig, k, 0)
        drop == floorLog2(p[1], 1)
        unit == 2 ^ drop
        low  == p[5] % unit
        kept == [p EXCEPT ![5] = @ - low]
        up   == 2 * low > unit \/ (2 * low = unit /\ (p[5] \div unit) % 2 = 1)
    IN  [sig |-> IF up THEN addCarry(kept, unit) ELSE kept, exp |-> x.exp]

\* int(x): the integer part of sig * 2^(exp - 52), for exp <= 13.
truncToInt(x) ==
    IF x.exp <= 0 THEN x.sig[1] \div 2 ^ (0 - x.exp)
    ELSE x.sig[1] * 2 ^ x.exp + x.sig[2] \div 2 ^ (13 - x.exp)

errPercentage(ec, rc) == truncToInt(float64Mul(float64Div(ec + 1, rc), 100))

---------------------------------------------------------------------------
(* DoCtx *)

\* A fast-fail test that asks more of the marker's value than DoCtx does.
fastFailAboveOne(cstate, osTTL) == cstate = circuitStateOpened /\ osTTL > 1

\* The circuit is open and the cooldown still runs: fail fast.
fastFail(cstate, osTTL) == cstate = circuitStateOpened /\ osTTL > 0

\* The effective state of a call that is not failed fast.
effectiveState(cstate) ==
    IF cstate = circuitStateOpened THEN circuitStateHalfOpened ELSE cstate

\* A failure in the closed state is only recorded.
belowThreshold(rc, ec, c) ==
    rc < c.requestCountThreshold \/ errPercentage(ec, rc) < c.errorPercentThreshold

\* An outcome write that closes the circuit on every success, whatever the
\* state the call started from.
outcomeWriteClosingOnSuccess(st, e, rc, ec, c) ==
    IF e = Nil THEN "flipClose"
    ELSE IF st = circuitStateHalfOpened THEN "flipOpen"
    ELSE IF belowThreshold(rc, ec, c) THEN "recordError"
    ELSE "flipOpen"

\* The outcome write DoCtx issues once the wrapped work has returned e.
outcomeWrite(st, e, rc, ec, c) ==
    IF e = Nil
    THEN IF st # circuitStateHalfOpened THEN "none" ELSE "flipClose"
    ELSE IF st = circuitStateHalfOpened THEN "flipOpen"
    ELSE IF belowThreshold(rc, ec, c) THEN "recordError"
    ELSE "flipOpen"

applyWrite(w, s, c) ==
    CASE w = "flipClose"   -> flipClose(s)
      [] w = "flipOpen"    -> flipOpen(s, c)
      [] w = "recordError" -> recordError(s, c)
      [] OTHER             -> s

\* The older Breaker.Do: errCount + 1/reqCount*100 on ints, where 1/reqCount
\* is 1 for reqCount = 1 and 0 above.
errPercentageDo(ec, rc) == ec + (1 \div rc) * 100

\* The older Breaker.Do records the failure only when both are below.
belowThresholdDo(rc, ec, c) ==
    rc < c.requestCountThreshold /\ errPercentageDo(ec, rc) < c.errorPercentThreshold

\* The outcome write of the older Breaker.Do for a failure in the Closed state.
outcomeWriteDo(rc, ec, c) ==
    IF belowThresholdDo(rc, ec, c) THEN "recordError" ELSE "flipOpen"

\* The older Breaker.Do returns nil on its failure paths.
returnNil(e, writeFailed) == Nil

\* A return that would surface the error of a failed outcome write.
returnStoreErrorOnFailedWrite(e, writeFailed) == IF writeFailed THEN ErrStore ELSE e

\* What DoCtx returns after the wrapped work returned e, whatever became of
\* the outcome write.
returnAfterWork(e, writeFailed) == e

\* What DoCtx prints when the outcome write w failed: the store's error for
\* flipClose and recordError, the wrapped work's error for flipOpen.
printed(w, e) == IF w = "flipOpen" THEN e ELSE ErrStore

\* b.redisPool.Get(): one more connection is out of the pool.  No operation
\* calls Close on the connection it took.
redisPoolGet(h) == IF h < MaxHeld THEN h + 1 ELSE h

\* How the store answers a transaction: applied and answered, refused (not
\* applied, an error), or applied with the reply lost (an error).
StoreReplies == {"ok", "refused", "lost"}

after(reply, s, t) == IF reply = "refused" THEN s ELSE t

\* The seed lasts as long as the window it was counted in.
seedAfter(s) == IF s.req.ex THEN seeded ELSE 0

\* Calls in flight that have not counted their request yet.
Uncounted == Cardinality({q \in Callers : pc[q] = "preRun"})

DoCtxInit(p) ==
    /\ pc[p] = "idle"
    /\ redisInt(GET(store.req)) - seeded + Uncounted < MaxCount
    /\ \E reply \in StoreReplies :
         LET s1     == after(reply, store, init(store))
             cstate == init(store).st
             osTTL  == redisInt(GET(store.marker))
         IN  /\ store' = s1
             /\ dirty' = [dirty EXCEPT ![p] = s1 # store]
             /\ IF reply # "ok"
                THEN /\ ret' = [ret EXCEPT ![p] = ErrStore]
                     /\ pc' = [pc EXCEPT ![p] = "done"]
                     /\ UNCHANGED state
                ELSE IF fastFail(cstate, osTTL)
                THEN /\ ret' = [ret EXCEPT ![p] = ErrCircuitOpened]
                     /\ pc' = [pc EXCEPT ![p] = "done"]
                     /\ UNCHANGED state
                ELSE /\ state' = [state EXCEPT ![p] = effectiveState(cstate)]
                     /\ pc' = [pc EXCEPT ![p] = "preRun"]
                     /\ UNCHANGED ret
    /\ seeded' = seedAfter(store')
    /\ held' = redisPoolGet(held)
    /\ UNCHANGED <<cfg, reqCount, errCount, err, diag, decided>>

DoCtxPreRun(p) ==
    /\ pc[p] = "preRun"
    /\ \E reply \in StoreReplies :
         LET s1 == after(reply, store, preRun(store, cfg))
         IN  /\ store' = s1
             /\ dirty' = [dirty EXCEPT ![p] = @ \/ s1 # store]
             /\ IF reply # "ok"
                THEN /\ ret' = [ret EXCEPT ![p] = ErrStore]
                     /\ pc' = [pc EXCEPT ![p] = "done"]
                     /\ UNCHANGED <<reqCount, errCount>>
                ELSE /\ reqCount' = [reqCount EXCEPT ![p] = redisInt(GET(s1.req))]
                     /\ errCount' = [errCount EXCEPT ![p] = redisInt(GET(s1.err))]
                     /\ pc' = [pc EXCEPT ![p] = "run"]
                     /\ UNCHANGED ret
    /\ seeded' = seedAfter(store')
    /\ held' = redisPoolGet(held)
    /\ UNCHANGED <<cfg, state, err, diag, decided>>

\* The wrapped work returns e, and DoCtx issues its outcome write and returns.
DoCtxFinish(p) ==
    /\ pc[p] = "run"
    /\ \E e \in {Nil} \cup WorkErrors, reply \in StoreReplies :
         LET w  == outcomeWrite(state[p], e, reqCount[p], errCount[p], cfg)
             s1 == after(reply, store, applyWrite(w, store, cfg))
         IN  /\ w = "none" => reply = "ok"
             /\ store' = s1
             /\ dirty' = [dirty EXCEPT ![p] = @ \/ s1 # store]
             /\ err' = [err EXCEPT ![p] = e]
             /\ diag' = [diag EXCEPT ![p] = IF reply = "ok" THEN Quiet ELSE printed(w, e)]
             /\ ret' = [ret EXCEPT ![p] = returnAfterWork(e, reply # "ok")]
             /\ pc' = [pc EXCEPT ![p] = "done"]
             /\ held' = IF w = "none" THEN held ELSE redisPoolGet(held)
    /\ seeded' = seedAfter(store')
    /\ UNCHANGED <<cfg, state, reqCount, errCount, decided>>

\* The caller has its result; its next call starts afresh.
Return(p) ==
    /\ pc[p] = "done"
    /\ pc' = [pc EXCEPT ![p] = "idle"]
    /\ state' = [state EXCEPT ![p] = NoKey]
    /\ reqCount' = [reqCount EXCEPT ![p] = 0]
    /\ errCount' = [errCount EXCEPT ![p] = 0]
    /\ err' = [err EXCEPT ![p] = Unrun]
    /\ ret' = [ret EXCEPT ![p] = Unrun]
    /\ diag' = [diag EXCEPT ![p] = Quiet]
    /\ dirty' = [dirty EXCEPT ![p] = FALSE]
    /\ UNCHANGED <<store, cfg, seeded, held, decided>>

\* One second passes: Redis removes the keys whose time is up.
aged(k) ==
    IF ~k.ex \/ k.ttl = NoTTL THEN k
    ELSE IF k.ttl = 1 THEN Absent
    ELSE [k EXCEPT !.ttl = @ - 1]

elapse(s) == [s EXCEPT !.marker = aged(@), !.req = aged(@), !.err = aged(@)]

Tick ==
    /\ \E k \in {store.marker, store.req, store.err} : k.ex /\ k.ttl # NoTTL
    /\ store' = elapse(store)
    /\ seeded' = seedAfter(store')
    /\ UNCHANGED <<cfg, pc, state, reqCount, errCount, err, ret, diag, dirty, held, decided>>

---------------------------------------------------------------------------
(* One caller alone *)

\* A whole call of DoCtx with no other caller in between and every
\* transaction answered, the wrapped work returning e: the store it leaves and
\* what it returns.
DoCtx(s, c, e) ==
    LET s0     == init(s)
        cstate == s0.st
        osTTL  == redisInt(GET(s0.marker))
    IN  IF fastFail(cstate, osTTL)
        THEN [store |-> s0, ret |-> ErrCircuitOpened]
        ELSE LET s1 == preRun(s0, c)
                 w  == outcomeWrite(effectiveState(cstate), e,
                                    redisInt(GET(s1.req)), redisInt(GET(s1.err)), c)
             IN  [store |-> applyWrite(w, s1, c), ret |-> returnAfterWork(e, FALSE)]

\* What a caller can see of the store: a state key that is not there yet
\* reads as CLOSED, and last_opened_at is never read.
visible(s) == [st |-> init(s).st, marker |-> s.marker, req |-> s.req, err |-> s.err]

Events == {"ok", "fail", "tick"}

EventSeqs == UNION {[1..n -> Events] : n \in 0..MaxEvents}

workResult(ev) == IF ev = "ok" THEN Nil ELSE CHOOSE e \in WorkErrors : TRUE

\* The returns and the visible stores of a run of calls and seconds from s.
RECURSIVE runSeq(_, _, _)
runSeq(s, c, evs) ==
    IF evs = <<>> THEN <<>>
    ELSE LET r == IF Head(evs) = "tick"
                  THEN [store |-> elapse(s), ret |-> Unrun]
                  ELSE DoCtx(s, c, workResult(Head(evs)))
         IN  <<[ret |-> r.ret, store |-> visible(r.store)]>> \o runSeq(r.store, c, Tail(evs))

---------------------------------------------------------------------------
(* Specifications *)

Settings(rct, ept, sw, iv) ==
    [requestCountThreshold |-> rct, errorPercentThreshold |-> ept,
     sleepWindow |-> sw, interval |-> iv]

TestSettings ==
    Settings(TestRequestCountThreshold, TestErrorPercentThreshold,
             DefaultSleepWindowSec * 1000, DefaultIntervalSec * 1000)

FractionalSettings ==
    Settings(TestRequestCountThreshold, TestErrorPercentThreshold,
             FractionalWindowMs, DefaultIntervalSec * 1000)

\* Nothing decided yet.
NoDecision == [reqCount |-> 0, errCount |-> 0, Do |-> "none", DoCtx |-> "none"]

IdleCallers ==
    /\ pc = [p \in Callers |-> "idle"]
    /\ state = [p \in Callers |-> NoKey]
    /\ reqCount = [p \in Callers |-> 0]
    /\ errCount = [p \in Callers |-> 0]
    /\ err = [p \in Callers |-> Unrun]
    /\ ret = [p \in Callers |-> Unrun]
    /\ diag = [p \in Callers |-> Quiet]
    /\ dirty = [p \in Callers |-> FALSE]
    /\ held = 0
    /\ decided = NoDecision

\* A new breaker on a name the store has never seen.
Init ==
    /\ store = EmptyStore
    /\ cfg \in {TestSettings, FractionalSettings}
    /\ seeded = 0
    /\ IdleCallers

Next ==
    \/ \E p \in Callers : DoCtxInit(p)
    \/ \E p \in Callers : DoCtxPreRun(p)
    \/ \E p \in Callers : DoCtxFinish(p)
    \/ \E p \in Callers : Return(p)
    \/ Tick

Spec == Init /\ [][Next]_vars

\* A breaker on a name whose window has already counted requests and
\* failures, as the tests seed it and as earlier calls leave it.
SeedSettings ==
    Settings(TestRequestCountThreshold, SeedErrorPercentThreshold,
             DefaultSleepWindowSec * 1000, DefaultIntervalSec * 1000)

\* The stores the tests seed before the first call (request count 1 and
\* error count 1; request count 1000; state OPENED), with the settings of
\* the tests and with the fractional sleep window, and a window earlier
\* calls have left in which the error percentage is a whole number.
Seeds ==
    { <<TestSettings, [EmptyStore EXCEPT !.req = Key(1, NoTTL), !.err = Key(1, NoTTL)]>>,
      <<TestSettings, [EmptyStore EXCEPT !.req = Key(TestSeedRequests, NoTTL)]>>,
      <<TestSettings, [EmptyStore EXCEPT !.st = circuitStateOpened]>>,
      <<FractionalSettings, [EmptyStore EXCEPT !.st = circuitStateOpened]>>,
      <<SeedSettings, [EmptyStore EXCEPT !.st = circuitStateClosed,
                                         !.req = Key(SeedRequests, DefaultIntervalSec),
                                         !.err = Key(SeedErrors, DefaultIntervalSec)]>> }

InitSeeded ==
    /\ \E seed \in Seeds :
         /\ cfg = seed[1]
         /\ store = seed[2]
         /\ seeded = redisInt(GET(seed[2].req))
    /\ IdleCallers

SpecSeeded == InitSeeded /\ [][Next]_vars

\* The two guarded calls side by side: for counts as preRun can read them,
\* what each does with a failure in the Closed state.
DefaultSettings ==
    Settings(DefaultRequestCountThreshold, DefaultErrorPercentThreshold,
             DefaultSleepWindowSec * 1000, DefaultIntervalSec * 1000)

InitDecide ==
    /\ store = EmptyStore
    /\ cfg \in {TestSettings, DefaultSettings}
    /\ seeded = 0
    /\ IdleCallers

Decide ==
    /\ \E rc \in 1..MaxRead, ec \in 0..MaxRead :
         decided' = [reqCount |-> rc, errCount |-> ec,
                     Do    |-> outcomeWriteDo(rc, ec, cfg),
                     DoCtx |-> outcomeWrite(circuitStateClosed, CHOOSE e \in WorkErrors : TRUE,
                                            rc, ec, cfg)]
    /\ UNCHANGED <<store, cfg, pc, state, reqCount, errCount, err, ret, diag, dirty,
                   seeded, held>>

NextDecide == Decide

SpecDecide == InitDecide /\ [][NextDecide]_vars

---------------------------------------------------------------------------
(* Properties *)

\* The steps of caller p's call.
InitStep(p) == pc[p] = "idle" /\ pc'[p] # "idle"
PreRunStep(p) == pc[p] = "preRun" /\ pc'[p] # "preRun"
FinishStep(p) == pc[p] = "run" /\ pc'[p] = "done"

\* A time to live of t whole seconds for a duration of d milliseconds.
FullWindow(t, d) == t # NoTTL /\ (t - 1) * 1000 < d /\ d < (t + 1) * 1000

\* A key that is on its way out within d milliseconds.
Expiring(k, d) == k.ex => k.ttl # NoTTL /\ (k.ttl - 1) * 1000 < d

\* C1 (fast fail).  Whenever init reads the stored state OPENED together
\* with a live marker, the call returns ErrCircuitOpened at once: the wrapped
\* work is not run and no key of the store is written.
C1_FastFail ==
    [][\A p \in Callers :
         (/\ InitStep(p)
          /\ store.st = circuitStateOpened
          /\ store.marker.ex
          /\ ret'[p] # ErrStore)
           => /\ ret'[p] = ErrCircuitOpened
              /\ pc'[p] = "done"
              /\ err'[p] = Unrun
              /\ store' = store]_vars

C1_FastFailed ==
    \E p \in Callers :
        /\ pc[p] = "done"
        /\ ret[p] = ErrCircuitOpened
        /\ err[p] = Unrun
        /\ store.st = circuitStateOpened
        /\ store.marker.ex

\* (errCount + 1) / reqCount * 100 >= errorPercentThreshold, in exact arithmetic.
percentReached(rc, ec, c) == (ec + 1) * 100 >= c.errorPercentThreshold * rc

\* C2 (opening rule).  A failing call whose effective state is Closed opens
\* the circuit (state OPENED, marker set) exactly when the reqCount its preRun
\* read is at least requestCountThreshold and (errCount + 1) / reqCount * 100
\* is at least errorPercentThreshold; otherwise state and marker stay as they
\* are and the error count goes up by one.
C2_OpeningRule ==
    [][\A p \in Callers :
         (/\ FinishStep(p)
          /\ state[p] = circuitStateClosed
          /\ err'[p] \in WorkErrors
          /\ diag'[p] = Quiet)
           => IF /\ reqCount[p] >= cfg.requestCountThreshold
                 /\ percentReached(reqCount[p], errCount[p], cfg)
              THEN /\ store'.st = circuitStateOpened
                   /\ store'.marker.ex
              ELSE /\ store'.st = store.st
                   /\ store'.marker = store.marker
                   /\ store'.err.ex
                   /\ store'.err.val = redisInt(GET(store.err)) + 1]_vars

\* The failing call that should have opened the circuit and only recorded.
C2_RecordedAtThreshold ==
    \E p \in Callers :
        /\ pc[p] = "done"
        /\ state[p] = circuitStateClosed
        /\ err[p] \in WorkErrors
        /\ diag[p] = Quiet
        /\ reqCount[p] >= cfg.requestCountThreshold
        /\ percentReached(reqCount[p], errCount[p], cfg)
        /\ store.st = circuitStateClosed
        /\ ~store.marker.ex

\* C3 (recovery on success).  When the effective state of a call is HalfOpen
\* and the wrapped work succeeds, the call returns success and its outcome
\* write sets the stored state to CLOSED and removes the marker, in one
\* transaction: the store is either left as it was (the write was refused,
\* which is only printed) or has both.
C3_RecoveryOnSuccess ==
    [][\A p \in Callers :
         (/\ FinishStep(p)
          /\ state[p] = circuitStateHalfOpened
          /\ err'[p] = Nil)
           => /\ ret'[p] = Nil
              /\ \/ store'.st = circuitStateClosed /\ ~store'.marker.ex
                 \/ diag'[p] # Quiet /\ store' = store]_vars

C3_Recovered ==
    \E p \in Callers :
        /\ pc[p] = "done"
        /\ state[p] = circuitStateHalfOpened
        /\ err[p] = Nil
        /\ ret[p] = Nil
        /\ diag[p] = Quiet
        /\ store.st = circuitStateClosed
        /\ ~store.marker.ex

\* C4 (re-open on a failed probe).  When the effective state of a call is
\* HalfOpen and the wrapped work fails, the stored state is OPENED and the
\* marker exists with the full sleep window left to live, whatever the
\* counts; the error count is not touched.
C4_ReopenOnFailedProbe ==
    [][\A p \in Callers :
         (/\ FinishStep(p)
          /\ state[p] = circuitStateHalfOpened
          /\ err'[p] \in WorkErrors
          /\ diag'[p] = Quiet)
           => /\ store'.st = circuitStateOpened
              /\ store'.marker.ex
              /\ FullWindow(store'.marker.ttl, cfg.sleepWindow)
              /\ store'.err = store.err]_vars

\* The probe failed and the marker it set has no expiry.
C4_ReopenedWithoutExpiry ==
    \E p \in Callers :
        /\ pc[p] = "done"
        /\ state[p] = circuitStateHalfOpened
        /\ err[p] \in WorkErrors
        /\ diag[p] = Quiet
        /\ store.st = circuitStateOpened
        /\ store.marker.ex
        /\ store.marker.ttl = NoTTL

C6_ClosedSuccess ==
    [][\A p \in Callers :
         /\ (PreRunStep(p) /\ state[p] = circuitStateClosed /\ pc'[p] = "run")
              => /\ store'.req.ex
                 /\ store'.req.val = redisInt(GET(store.req)) + 1
                 /\ store'.err.ex
                 /\ store'.err.val = redisInt(GET(store.err))
                 /\ store'.st = store.st
                 /\ store'.marker = store.marker
         /\ (FinishStep(p) /\ state[p] = circuitStateClosed /\ err'[p] = Nil)
              => /\ store' = store
                 /\ ret'[p] = Nil]_vars

\* One successful call on an empty store.
C6_FirstSuccess ==
    \E p \in Callers :
        /\ pc[p] = "done"
        /\ state[p] = circuitStateClosed
        /\ ret[p] = Nil
        /\ store.req.ex /\ store.req.val = 1
        /\ store.err.ex /\ store.err.val = 0
        /\ store.st = circuitStateClosed
        /\ ~store.marker.ex

\* C7, as the claim states it.  A call that ends with the store's error
\* has not run the wrapped work and has changed no stored key.
C7_StoreUntouched ==
    \A p \in Callers :
        (pc[p] = "done" /\ ret[p] = ErrStore) => (err[p] = Unrun /\ ~dirty[p])

\* C7, amended.  A call that ends with the store's error in init or in
\* preRun has not run the wrapped work and has issued no outcome write; the
\* marker and a stored state are as before.  What it may leave behind: the
\* state key that init created as CLOSED where there was none, and, when
\* preRun's transaction was applied and only its reply lost, the request
\* counted (request count one up, error count in place).
C7_StoreFailureBeforeWork ==
    [][\A p \in Callers :
         /\ InitStep(p)
              => /\ store'.marker = store.marker
                 /\ store'.req = store.req
                 /\ store'.err = store.err
                 /\ \/ store'.st = store.st
                    \/ store.st = NoKey /\ store'.st = circuitStateClosed
         /\ (InitStep(p) \/ PreRunStep(p)) /\ ret'[p] = ErrStore
              => /\ pc'[p] = "done"
                 /\ err'[p] = Unrun
                 /\ diag'[p] = Quiet
         /\ PreRunStep(p) /\ ret'[p] = ErrStore
              => /\ store'.st = store.st
                 /\ store'.marker = store.marker
                 /\ \/ store'.req = store.req /\ store'.err = store.err
                    \/ /\ store'.req.ex
                       /\ store'.req.val = redisInt(GET(store.req)) + 1
                       /\ store'.err.ex
                       /\ store'.err.val = redisInt(GET(store.err))]_vars

\* The store failed in preRun after init had created the state key.
C7_FailedBeforeWork ==
    \E p \in Callers :
        /\ pc[p] = "done"
        /\ ret[p] = ErrStore
        /\ err[p] = Unrun
        /\ dirty[p]
        /\ state[p] = circuitStateClosed

\* C8 (bookkeeping failures never mask the outcome).  A call whose outcome
\* write failed has run the wrapped work and returns the work's own result,
\* nil or the work's error, never the store's error.
C8_OutcomeNotMasked ==
    \A p \in Callers :
        (pc[p] = "done" /\ diag[p] # Quiet)
          => /\ err[p] # Unrun
             /\ ret[p] = err[p]
             /\ ret[p] # ErrStore

C8_WriteFailedAfterSuccess ==
    \E p \in Callers :
        /\ pc[p] = "done"
        /\ diag[p] # Quiet
        /\ err[p] = Nil
        /\ ret[p] = Nil
        /\ state[p] = circuitStateHalfOpened

\* C9 (recovery is always possible).  A marker always has an expiry within
\* the sleep window, so that the cooldown ends; and a call whose init reads
\* OPENED with the marker gone is not failed fast but goes on as a HalfOpen
\* probe.
C9_RecoveryPossible ==
    [][/\ Expiring(store'.marker, cfg.sleepWindow)
       /\ \A p \in Callers :
            (/\ InitStep(p)
             /\ store.st = circuitStateOpened
             /\ ~store.marker.ex
             /\ ret'[p] # ErrStore)
              => /\ pc'[p] = "preRun"
                 /\ state'[p] = circuitStateHalfOpened]_vars

\* The circuit is open for good: nobody is in a call and the marker has no expiry.
C9_OpenForGood ==
    /\ \A p \in Callers : pc[p] = "idle"
    /\ store.st = circuitStateOpened
    /\ store.marker.ex
    /\ store.marker.ttl = NoTTL

\* C10 (round trip without residue).  After a HalfOpen probe has succeeded
\* and closed the circuit, with no other call in flight, every run of calls
\* and seconds by one caller returns what it returns on a store never used
\* and leaves the same visible keys: nothing of the previous cycle weighs on
\* the next opening.
C10_RoundTrip ==
    [][\A p \in Callers :
         (/\ FinishStep(p)
          /\ state[p] = circuitStateHalfOpened
          /\ err'[p] = Nil
          /\ diag'[p] = Quiet
          /\ \A q \in Callers \ {p} : pc[q] = "idle")
           => \A evs \in EventSeqs :
                runSeq(store', cfg, evs) = runSeq(EmptyStore, cfg, evs)]_vars

\* The circuit was opened and a probe has closed it again.
C10_ClosedAgain ==
    \E p \in Callers :
        /\ pc[p] = "done"
        /\ state[p] = circuitStateHalfOpened
        /\ err[p] = Nil
        /\ diag[p] = Quiet
        /\ \A q \in Callers \ {p} : pc[q] = "idle"
        /\ store.openedAt
        /\ store.st = circuitStateClosed
        /\ ~store.req.ex

\* C11 (no single flight in HalfOpen).  Several callers can each have read
\* HalfOpen and be running the wrapped work at once; each issues its own
\* outcome write, and the state and the marker are those of the write applied
\* last, whatever the earlier ones left: CLOSED and no marker after a
\* success, OPENED and a new marker after a failure.
C11_LastWriteWins ==
    [][\A p \in Callers :
         (/\ FinishStep(p)
          /\ state[p] = circuitStateHalfOpened
          /\ diag'[p] = Quiet
          /\ \E q \in Callers \ {p} :
                state[q] = circuitStateHalfOpened /\ pc[q] \in {"run", "done"})
           => /\ err'[p] = Nil
                   => /\ store'.st = flipClose(EmptyStore).st
                      /\ store'.marker = flipClose(EmptyStore).marker
              /\ err'[p] \in WorkErrors
                   => /\ store'.st = flipOpen(EmptyStore, cfg).st
                      /\ store'.marker = flipOpen(EmptyStore, cfg).marker]_vars

\* Two probes run the wrapped work at the same time.
C11_TwoProbes ==
    \A p \in Callers : pc[p] = "run" /\ state[p] = circuitStateHalfOpened

\* C12, as the claim states it.  The marker exists if and only if the
\* stored state is OPENED.
C12_MarkerIffOpened ==
    store.marker.ex <=> store.st = circuitStateOpened

\* C12, amended.  The marker exists only while the stored state is OPENED,
\* and a step that opens the circuit sets it; the marker goes away either
\* with the state set to CLOSED or by its own expiry, which leaves the state
\* OPENED.
C12_MarkerWithOpened ==
    [][/\ store'.marker.ex => store'.st = circuitStateOpened
       /\ (store.st # circuitStateOpened /\ store'.st = circuitStateOpened)
            => store'.marker.ex
       /\ (store.marker.ex /\ ~store'.marker.ex)
            => \/ store'.st = circuitStateClosed
               \/ /\ store' = elapse(store)
                  /\ store.marker.ttl = 1
                  /\ store'.st = circuitStateOpened]_vars

\* The cooldown has elapsed: the state is OPENED and the marker is gone.
C12_CooldownElapsed ==
    /\ store.st = circuitStateOpened
    /\ ~store.marker.ex
    /\ store.openedAt
    /\ \A p \in Callers : pc[p] = "idle"

\* C13, as the claim states it.  The stored error count is never above the
\* stored request count.
C13_ErrorsWithinRequests ==
    redisInt(GET(store.err)) <= redisInt(GET(store.req))

\* C13, amended.  An error count never exists without a request count, and
\* it is above the request count by at most the number of other callers:
\* each of them can have one failure of the window before, counted as a
\* request there and recorded as an error here.
C13_ErrorsWithinRequestsAndCallers ==
    store.err.ex
      => /\ store.req.ex
         /\ store.err.val <= store.req.val + Cardinality(Callers) - 1

\* Two failures counted in a window that held one request.
C13_MoreErrorsThanRequests ==
    /\ store.req.ex /\ store.err.ex
    /\ store.err.val = store.req.val + 1
    /\ \A p \in Callers : pc[p] = "done" /\ err[p] \in WorkErrors /\ diag[p] = Quiet

\* C14 (the counters live and die together).  The request count exists if
\* and only if the error count exists, and they have the same time to live.
C14_CountersTogether ==
    /\ store.req.ex <=> store.err.ex
    /\ store.req.ttl = store.err.ttl

\* Both counters, some way into their window, after a recorded failure.
C14_WindowRunning ==
    /\ store.req.ex /\ store.err.ex
    /\ store.err.val >= 1
    /\ store.req.ttl = store.err.ttl
    /\ store.req.ttl # NoTTL
    /\ store.req.ttl * 1000 < cfg.interval

\* What a step makes of a counter that has an expiry: the counter is removed,
\* or its time to live has not grown, and only the passing of time changes it.
windowKept(k, k2) ==
    (k.ex /\ k.ttl # NoTTL /\ k2.ex)
      => /\ k2.ttl # NoTTL
         /\ k2.ttl <= k.ttl
         /\ pc' # pc => k2.ttl = k.ttl

\* C15 (the rolling window is never extended).  Once a counter has an
\* expiry, no preRun and no recordError of any caller changes it: an expiry
\* is set only on a counter that has none, so the counter is gone when its
\* interval is over however many calls arrive in between.
C15_WindowNeverExtended ==
    [][/\ windowKept(store.req, store'.req)
       /\ windowKept(store.err, store'.err)]_vars

\* A second request counted late in the window, which still ends on time.
C15_CountedLateInWindow ==
    \E p \in Callers :
        /\ pc[p] = "run"
        /\ reqCount[p] >= 2
        /\ store.req.ex
        /\ store.req.val = reqCount[p]
        /\ store.req.ttl # NoTTL
        /\ store.req.ttl * 1000 < cfg.interval

\* C16 (cooldown bound).  The marker, when it exists, has a time to live
\* above 0 and within the sleep window: no flipOpen leaves it without an
\* expiry.
C16_CooldownBound ==
    store.marker.ex
      => /\ store.marker.ttl # NoTTL
         /\ store.marker.ttl > 0
         /\ (store.marker.ttl - 1) * 1000 < cfg.sleepWindow

\* A failure in the Closed state has opened the circuit with a marker that
\* has no expiry.
C16_OpenedWithoutExpiry ==
    \E p \in Callers :
        /\ pc[p] = "done"
        /\ state[p] = circuitStateClosed
        /\ err[p] \in WorkErrors
        /\ diag[p] = Quiet
        /\ reqCount[p] >= cfg.requestCountThreshold
        /\ store.st = circuitStateOpened
        /\ store.marker.ex
        /\ store.marker.ttl = NoTTL

\* C17 (the stored state and its lazy creation).  Once the state key exists
\* it exists for good and holds CLOSED or OPENED, never HALF_OPENED; init
\* creates it as CLOSED where there is none, leaves a value that is there,
\* and writes neither the counters nor the marker.
C17_StoredStateDomain ==
    [][/\ store'.st \in {NoKey, circuitStateClosed, circuitStateOpened}
       /\ store.st # NoKey => store'.st # NoKey
       /\ \A p \in Callers :
            InitStep(p)
              => /\ ret'[p] # ErrStore => store'.st # NoKey
                 /\ store.st # NoKey => store'.st = store.st
                 /\ store.st = NoKey => store'.st \in {NoKey, circuitStateClosed}
                 /\ store'.marker = store.marker
                 /\ store'.req = store.req
                 /\ store'.err = store.err]_vars

\* A probe is under way: HALF_OPENED in the call, OPENED in the store.
C17_ProbeUnderWay ==
    \E p \in Callers :
        /\ pc[p] = "run"
        /\ state[p] = circuitStateHalfOpened
        /\ store.st = circuitStateOpened
        /\ \A q \in Callers \ {p} : pc[q] = "idle"

\* C20 (a live marker implies an open circuit).  If the marker exists the
\* stored state is OPENED, also when probes race to close and to re-open: no
\* init reads CLOSED together with a marker.
C20_MarkerImpliesOpened ==
    store.marker.ex => store.st = circuitStateOpened

\* Two probes have raced, one closing and one re-opening the circuit.
C20_ProbesRaced ==
    \E p, q \in Callers :
        /\ pc[p] = "done" /\ pc[q] = "done"
        /\ state[p] = circuitStateHalfOpened /\ state[q] = circuitStateHalfOpened
        /\ err[p] = Nil /\ err[q] \in WorkErrors
        /\ diag[p] = Quiet /\ diag[q] = Quiet
        /\ store.marker.ex
        /\ store.st = circuitStateOpened

\* C18 (connections are borrowed per operation).  Every connection init,
\* preRun, flipOpen, flipClose or recordError took from the pool is back in
\* the pool when the operation returns: none is held between operations, none
\* while the wrapped work runs, and the number held does not grow with the
\* calls.
C18_ConnectionsReturned ==
    held = 0

\* The wrapped work runs while the connections of init and preRun are out.
C18_HeldDuringWork ==
    \E p \in Callers :
        /\ pc[p] = "run"
        /\ held >= 2
        /\ \A q \in Callers \ {p} : pc[q] = "idle" /\ ret[q] = Unrun

ProbeSucceeds(p) ==
    FinishStep(p) /\ state[p] = circuitStateHalfOpened /\ err'[p] = Nil

\* C21, as the claim states it.  The stored state goes from OPENED to CLOSED
\* only by the flipClose of a call that read HalfOpen and succeeded, and the
\* marker is not live when that flipClose is applied.
C21_ClosedOnlyAfterCooldown ==
    [][(store.st = circuitStateOpened /\ store'.st = circuitStateClosed)
         => /\ \E p \in Callers : ProbeSucceeds(p)
            /\ ~store.marker.ex]_vars

\* C21, amended.  The stored state goes from OPENED to CLOSED only by the
\* flipClose of a call that read HalfOpen and succeeded; a marker that is
\* live at that moment, set by another call since, is removed with it.
C21_ClosedOnlyByProbe ==
    [][(store.st = circuitStateOpened /\ store'.st = circuitStateClosed)
         => /\ \E p \in Callers : ProbeSucceeds(p)
            /\ ~store'.marker.ex]_vars

\* A probe has closed the circuit that another probe had re-opened.
C21_ClosedAfterReopen ==
    \E p, q \in Callers :
        /\ pc[p] = "done" /\ pc[q] = "done"
        /\ state[p] = circuitStateHalfOpened /\ state[q] = circuitStateHalfOpened
        /\ err[p] = Nil /\ err[q] \in WorkErrors
        /\ diag[p] = Quiet /\ diag[q] = Quiet
        /\ store.st = circuitStateClosed
        /\ ~store.marker.ex

\* C22 (a running cooldown is never extended).  Once the state is OPENED
\* with a live marker, no step of a call moves the marker's expiry later
\* while the marker lives: of two callers that both read Closed and both
\* fail above the thresholds, the second does not restart the cooldown the
\* first began.
C22_CooldownNeverExtended ==
    [][(/\ store.st = circuitStateOpened
        /\ store.marker.ex
        /\ store.marker.ttl # NoTTL
        /\ store'.marker.ex)
         => /\ store'.marker.ttl # NoTTL
            /\ store'.marker.ttl <= store.marker.ttl]_vars

\* Two callers that read Closed have both failed above the thresholds and
\* both opened the circuit; the marker has the full sleep window again.
C22_OpenedTwice ==
    /\ \A p \in Callers :
         /\ pc[p] = "done"
         /\ state[p] = circuitStateClosed
         /\ err[p] \in WorkErrors
         /\ diag[p] = Quiet
         /\ ~belowThreshold(reqCount[p], errCount[p], cfg)
    /\ store.st = circuitStateOpened
    /\ store.marker.ex
    /\ FullWindow(store.marker.ttl, cfg.sleepWindow)

====
